---- MODULE Spec2Model ----
(***************************************************************************)
(* Model of main.py: node-voltage analysis of a SPICE netlist.             *)
(*                                                                         *)
(* Strings are sequences of one-character strings, so that the prefixing   *)
(* ("V" + node, "I" + name), indexing (line[0][0]) and suffix tests of the *)
(* source are computed and not assumed.  The token "micro" stands for the  *)
(* single character U+00B5.  SymPy expressions are kept as the structure   *)
(* of the calls that build them (sp.symbols, sp.Eq, sum); SymPy's own      *)
(* evaluation and the solver are outside the repository.                   *)
(***************************************************************************)
EXTENDS Integers, Sequences, FiniteSets, TLC

VARIABLES pc, err, lines, node_list, equations, unknowns, values, sols,
          transfer_func

vars == <<pc, err, lines, node_list, equations, unknowns, values, sols,
          transfer_func>>

(* ---------------------------- bounds ----------------------------------- *)
MaxLines == 2

(* ------------------------- string helpers ------------------------------ *)
Range(q) == {q[i] : i \in 1..Len(q)}

Count(q, x) == Cardinality({i \in 1..Len(q) : q[i] = x})

IsPrefix(p, q) == Len(p) <= Len(q) /\ SubSeq(q, 1, Len(p)) = p

Digits == {"0", "1", "2"}

DigitVal(c) == CASE c = "0" -> 0 [] c = "1" -> 1 [] c = "2" -> 2

\* str.lower() on the letters the inputs use
LowerChar(c) == CASE c = "K" -> "k" [] c = "M" -> "m" [] OTHER -> c

Lower(v) == [i \in 1..Len(v) |-> LowerChar(v[i])]

\* str.replace("µ", "u")
ReplaceMicro(v) == [i \in 1..Len(v) |-> IF v[i] = "micro" THEN "u" ELSE v[i]]

RECURSIVE LStrip(_, _)
LStrip(v, c) == IF v # <<>> /\ Head(v) = c THEN LStrip(Tail(v), c) ELSE v

RECURSIVE RStrip(_, _)
RStrip(v, c) ==
    IF v # <<>> /\ v[Len(v)] = c THEN RStrip(SubSeq(v, 1, Len(v) - 1), c) ELSE v

\* str.strip(c): removes every leading and every trailing c
Strip(v, c) == RStrip(LStrip(v, c), c)

\* str.isnumeric(): non-empty and all characters numeric
IsNumeric(v) == v # <<>> /\ \A i \in 1..Len(v) : v[i] \in Digits

EndsWith(v, suf) ==
    Len(suf) <= Len(v) /\ SubSeq(v, Len(v) - Len(suf) + 1, Len(v)) = suf

\* value[:-k]
DropLast(v, k) == SubSeq(v, 1, Len(v) - k)

RECURSIVE DigitsToInt(_)
DigitsToInt(v) ==
    IF v = <<>> THEN 0
    ELSE 10 * DigitsToInt(SubSeq(v, 1, Len(v) - 1)) + DigitVal(v[Len(v)])

\* int(x): raises ValueError unless x is an integer literal
IntParses(v) == IsNumeric(v)

\* the number n * 10^e, written with n not divisible by 10 (0 as <<0, 0>>)
RECURSIVE Scaled(_, _)
Scaled(n, e) ==
    IF n = 0 THEN <<0, 0>>
    ELSE IF n % 10 = 0 THEN Scaled(n \div 10, e + 1)
    ELSE <<n, e>>

(* --------------------------- value parsing ----------------------------- *)
NormalizeValue(value) ==
    Strip(Strip(Strip(Strip(Strip(ReplaceMicro(Lower(value)),
        "h"), "f"), "r"), "v"), "a")

\* the if/elif chain of add_component on the normalized token:
\* <<characters dropped from the end, multiplier mantissa, power of ten>>
SuffixRule(value) ==
    CASE IsNumeric(value)                  -> <<0, 1, 0>>
      [] EndsWith(value, <<"m","e","g">>)  -> <<3, 1, 6>>
      [] EndsWith(value, <<"m","i","l">>)  -> <<3, 254, -7>>
      [] EndsWith(value, <<"t">>)          -> <<1, 1, 12>>
      [] EndsWith(value, <<"g">>)          -> <<1, 1, 9>>
      [] EndsWith(value, <<"k">>)          -> <<1, 1, 3>>
      [] EndsWith(value, <<"m">>)          -> <<1, 1, -3>>
      [] EndsWith(value, <<"u">>)          -> <<1, 1, -6>>
      [] EndsWith(value, <<"n">>)          -> <<1, 1, -9>>
      [] EndsWith(value, <<"p">>)          -> <<1, 1, -12>>
      [] EndsWith(value, <<"f">>)          -> <<1, 1, -15>>
      [] OTHER                             -> <<0, 0, 0>>

\* parsed_val of add_component, or a ValueError (ok = FALSE)
ParseValue(token) ==
    LET value == NormalizeValue(token)
        rule  == SuffixRule(value)
        body  == DropLast(value, rule[1])
    IN  IF rule[2] = 0 \/ ~IntParses(body)
        THEN [ok |-> FALSE, val |-> <<0, 0>>]
        ELSE [ok |-> TRUE, val |-> Scaled(DigitsToInt(body) * rule[2], rule[3])]

\* values[component] = parsed_val, or the table untouched on ValueError
add_component(S, component, token) ==
    LET p == ParseValue(token)
    IN  IF p.ok
        THEN [S |-> [S EXCEPT !.values =
                        [c \in DOMAIN S.values \cup {component} |->
                            IF c = component THEN p.val ELSE S.values[c]]],
              err |-> "none"]
        ELSE [S |-> S, err |-> "ValueError"]

(* ------------------------------ symbols -------------------------------- *)
\* sp.symbols(prefix + name)
Sym(prefix, name) == <<prefix>> \o name

Ground == <<"0">>

\* the integer constant 0 inside an expression
Zero == <<"0">>

\* sp.symbols("V" + node) if node != "0" else 0
Vnode(node) == IF node # Ground THEN Sym("V", node) ELSE Zero

TO_IGNORE == { <<"*">>,
               <<".","b","a","c","k","a","n","n","o">>,
               <<".","e","n","d">> }

\* Z = symbol, 1 / (s * symbol) or s * symbol
Impedance(component_type, symbol) == [kind |-> component_type, sym |-> symbol]

\* I = (Vnode_1 - Vnode_2) / Z
BranchCurrent(v1, v2, Z) == [op |-> "div", v1 |-> v1, v2 |-> v2, Z |-> Z]

\* I = sp.symbols("I" + name)
SourceCurrent(name) == [op |-> "sym", sym |-> Sym("I", name)]

(* --------------------------- node ledger ------------------------------- *)
\* node_list is a dict: entries in insertion order
HasNode(nl, node) == \E i \in 1..Len(nl) : nl[i].node = node

Currents(nl, node) ==
    IF HasNode(nl, node)
    THEN nl[CHOOSE i \in 1..Len(nl) : nl[i].node = node].currents
    ELSE <<>>

AddTerm(S, node, term) ==
    IF HasNode(S.node_list, node)
    THEN [S EXCEPT
            !.node_list = [i \in 1..Len(S.node_list) |->
                IF S.node_list[i].node = node
                THEN [node |-> node,
                      currents |-> Append(S.node_list[i].currents, term)]
                ELSE S.node_list[i]],
            !.unknowns = Append(S.unknowns, Sym("V", node))]
    ELSE [S EXCEPT
            !.node_list = Append(S.node_list,
                                 [node |-> node, currents |-> <<term>>])]

add_positive_current_to_node(S, node, current) ==
    AddTerm(S, node, [sign |-> 1, current |-> current])

\* the contribution recorded without the factor -1
add_negative_current_to_node_unsigned(S, node, current) ==
    AddTerm(S, node, [sign |-> 1, current |-> current])

add_negative_current_to_node(S, node, current) ==
    AddTerm(S, node, [sign |-> -1, current |-> current])

Constraint(Vsrc_symbol, Vnode_1, Vnode_2) ==
    [kind |-> "constraint", lhs |-> Vsrc_symbol, v1 |-> Vnode_1, v2 |-> Vnode_2]

\* the constraint emitted without registering the source current
add_voltage_source_no_unknown(S, Vnode_1, Vnode_2, Vsrc_symbol, Vsrc_current) ==
    [S EXCEPT
        !.equations = Append(S.equations,
                             Constraint(Vsrc_symbol, Vnode_1, Vnode_2))]

add_voltage_source(S, Vnode_1, Vnode_2, Vsrc_symbol, Vsrc_current) ==
    [S EXCEPT
        !.equations = Append(S.equations,
                             Constraint(Vsrc_symbol, Vnode_1, Vnode_2)),
        !.unknowns = Append(S.unknowns, Vsrc_current.sym)]

(* ------------------------- handle_spice_line --------------------------- *)
Passive == {"R", "C", "L"}

\* the contributions of one branch: negative at node_1, positive at node_2
AddBranch(S, node_1, node_2, I) ==
    add_positive_current_to_node(
        add_negative_current_to_node(S, node_1, I), node_2, I)

HandlePassive(S, line) ==
    LET name == line[1]
        I == BranchCurrent(Vnode(line[2]), Vnode(line[3]),
                           Impedance(name[1], name))
    IN  add_component(AddBranch(S, line[2], line[3], I), name, line[4])

HandleVoltageSource(S, line) ==
    LET name == line[1]
        I == SourceCurrent(name)
    IN  add_component(
            add_voltage_source(AddBranch(S, line[2], line[3], I),
                               Vnode(line[2]), Vnode(line[3]), name, I),
            name, line[4])

HandleCurrentSource(S, line) ==
    LET name == line[1]
        I == SourceCurrent(name)
    IN  add_component(AddBranch(S, line[2], line[3], I), name, line[4])

\* the value field read only when add_component is reached, so that a
\* three-field record registers its branch before the IndexError
handle_spice_line_late_check(S, line) ==
    IF line[1] \in TO_IGNORE THEN [S |-> S, err |-> "none"]
    ELSE IF line[1] = <<>> THEN [S |-> S, err |-> "IndexError"]
    ELSE IF line[1][1] \in Passive \cup {"V", "I"} /\ Len(line) < 3
         THEN [S |-> S, err |-> "IndexError"]
    ELSE IF line[1][1] \in Passive \cup {"V", "I"} /\ Len(line) = 3
         THEN [S |-> AddBranch(S, line[2], line[3], SourceCurrent(line[1])),
               err |-> "IndexError"]
    ELSE IF line[1][1] \in Passive THEN HandlePassive(S, line)
    ELSE IF line[1][1] = "V" THEN HandleVoltageSource(S, line)
    ELSE IF line[1][1] = "I" THEN HandleCurrentSource(S, line)
    ELSE [S |-> S, err |-> "none"]

\* result: the accumulators after the call and the exception raised, if any
handle_spice_line(S, line) ==
    IF line[1] \in TO_IGNORE THEN [S |-> S, err |-> "none"]
    ELSE IF line[1] = <<>> THEN [S |-> S, err |-> "IndexError"]
    ELSE IF line[1][1] \in Passive \cup {"V", "I"} /\ Len(line) < 4
         THEN [S |-> S, err |-> "IndexError"]
    ELSE IF line[1][1] \in Passive THEN HandlePassive(S, line)
    ELSE IF line[1][1] = "V" THEN HandleVoltageSource(S, line)
    ELSE IF line[1][1] = "I" THEN HandleCurrentSource(S, line)
    ELSE [S |-> S, err |-> "none"]

(* ------------------------------ inputs --------------------------------- *)
Nodes == { <<"0">>, <<"1">>, <<"2">> }

ComponentNames == { <<"R","1">>, <<"C","1">>, <<"L","1">>,
                    <<"V","1">>, <<"I","1">> }

\* node pairs of the generated records: every pair for a resistor and a
\* voltage source, the pairs between distinct nodes for the others
NodePairs(n) ==
    CASE n[1] \in {"C", "L"} ->
            { << <<"1">>, <<"2">> >>, << <<"1">>, <<"0">> >> }
      [] n[1] = "I" ->
            { << <<"1">>, <<"2">> >>, << <<"2">>, <<"1">> >>,
              << <<"1">>, <<"0">> >>, << <<"0">>, <<"1">> >> }
      [] OTHER -> Nodes \X Nodes

GoodValue == <<"1","0","k">>

BadValue == <<"1","0","x","y","z">>

\* four-field records whose value parses
FullLines ==
    UNION { { <<n, ab[1], ab[2], GoodValue>> : ab \in NodePairs(n) }
            : n \in ComponentNames }

\* four-field records whose value raises the ValueError
BadValueLines ==
    { <<n, <<"1">>, b, BadValue>> : n \in ComponentNames, b \in Nodes }

\* records cut after one, two or three fields
ShortLines ==
    { SubSeq(l, 1, k) : l \in BadValueLines, k \in 1..3 }

\* lines whose type code is none of R, C, L, V, I and is not on TO_IGNORE
UnsupportedLines ==
    { << <<"X","1">>, <<"1">>, <<"0">>, <<"1","0","k">> >>,
      << <<"K","1">>, <<"L","1">>, <<"L","2">> >> }

\* netlist lines after line.split(" ") and strip: never an empty list
NetlistLines ==
    FullLines \cup BadValueLines \cup ShortLines \cup UnsupportedLines
        \cup { <<m>> : m \in TO_IGNORE } \cup { << <<>> >> }

(* ---------------------------- the pipeline ----------------------------- *)
Accumulators ==
    [node_list |-> node_list, equations |-> equations,
     unknowns |-> unknowns, values |-> values]

Init ==
    /\ pc = "scan"
    /\ err = "none"
    /\ lines = <<>>
    /\ node_list = <<>>
    /\ equations = <<>>
    /\ unknowns = <<>>
    /\ values = <<>>
    /\ sols = [kind |-> "unset", keys |-> {}]
    /\ transfer_func = <<>>

\* one iteration of "for line in lines": handle_spice_line(tokens)
HandleLine ==
    /\ pc = "scan" /\ err = "none"
    /\ Len(lines) < MaxLines
    /\ \E line \in NetlistLines :
         LET r == handle_spice_line(Accumulators, line)
         IN  /\ lines' = Append(lines, line)
             /\ node_list' = r.S.node_list
             /\ equations' = r.S.equations
             /\ unknowns' = r.S.unknowns
             /\ values' = r.S.values
             /\ err' = r.err
    /\ UNCHANGED <<pc, sols, transfer_func>>

\* the loop is exhausted; print_component_values()
EndOfScan ==
    /\ pc = "scan" /\ err = "none"
    /\ pc' = "kcl"
    /\ UNCHANGED <<err, lines, node_list, equations, unknowns, values, sols,
                   transfer_func>>

KCL(currents) == [kind |-> "KCL", currents |-> currents]

\* KCL generation that leaves out the ground node
generate_KCL_equations_skip_ground ==
    /\ pc = "kcl" /\ err = "none"
    /\ equations' = equations \o
            LET ng == SelectSeq(node_list, LAMBDA en : en.node # Ground)
            IN  [i \in 1..Len(ng) |-> KCL(ng[i].currents)]
    /\ pc' = "solve"
    /\ UNCHANGED <<err, lines, node_list, unknowns, values, sols,
                   transfer_func>>

\* generate_KCL_equations(); print_equations()
generate_KCL_equations ==
    /\ pc = "kcl" /\ err = "none"
    /\ equations' = equations \o
            [i \in 1..Len(node_list) |-> KCL(node_list[i].currents)]
    /\ pc' = "solve"
    /\ UNCHANGED <<err, lines, node_list, unknowns, values, sols,
                   transfer_func>>

\* sols = sp.solve(equations, unknowns): a dict keyed by solved unknowns,
\* or a list when SymPy finds no solution of that shape
SolveOutcomes ==
    { [kind |-> "dict", keys |-> Range(unknowns)],
      [kind |-> "list", keys |-> {}] }

RECURSIVE Dedup(_)
Dedup(q) ==
    IF q = <<>> THEN <<>>
    ELSE LET r == Dedup(SubSeq(q, 1, Len(q) - 1))
         IN  IF q[Len(q)] \in Range(r) THEN r ELSE Append(r, q[Len(q)])

\* a solve step that first removes duplicates from the unknown list in place
solve_equations_dedup ==
    /\ pc = "solve" /\ err = "none"
    /\ unknowns' = Dedup(unknowns)
    /\ \E r \in SolveOutcomes : sols' = r
    /\ pc' = "tf"
    /\ UNCHANGED <<err, lines, node_list, equations, values, transfer_func>>

solve_equations ==
    /\ pc = "solve" /\ err = "none"
    /\ \E r \in SolveOutcomes : sols' = r
    /\ pc' = "tf"
    /\ UNCHANGED <<err, lines, node_list, equations, unknowns, values,
                   transfer_func>>

\* sys.argv[2], sys.argv[3]
InputVars == { <<"V","1">> }

OutputVars == { <<"V","1">>, <<"V","2">> }

\* transfer_func = find_transfer_function(input_var, output_var)
find_transfer_function ==
    /\ pc = "tf" /\ err = "none"
    /\ \E input_var \in InputVars, output_var \in OutputVars :
         IF sols.kind = "dict" /\ input_var \in sols.keys
                               /\ output_var \in sols.keys
         THEN /\ transfer_func' = <<output_var, input_var>>
              /\ pc' = "done"
              /\ err' = err
         ELSE /\ err' = IF sols.kind = "dict" THEN "KeyError" ELSE "TypeError"
              /\ UNCHANGED <<pc, transfer_func>>
    /\ UNCHANGED <<lines, node_list, equations, unknowns, values, sols>>

Next ==
    \/ HandleLine
    \/ EndOfScan
    \/ generate_KCL_equations
    \/ solve_equations
    \/ find_transfer_function

Spec == Init /\ [][Next]_vars

(* ------------------- add_component on its own -------------------------- *)
NumberTokens == { <<"1">>, <<"1","0">>, <<"2">> }

SuffixTokens ==
    { <<>>, <<"m","e","g">>, <<"m","i","l">>, <<"t">>, <<"g">>, <<"k">>,
      <<"m">>, <<"u">>, <<"n">>, <<"p">>, <<"f">>, <<"x","y","z">>,
      <<"K">>, <<"micro">> }

UnitLetters == { <<"h">>, <<"f">>, <<"r">>, <<"v">>, <<"a">> }

ValueTokens ==
    { n \o x \o u : n \in NumberTokens, x \in SuffixTokens,
                    u \in UnitLetters \cup { <<>> } }
        \cup { <<>>, <<"k">>, <<"2",".","2","u">> }

ValueComponents == { <<"R","1">> }

InitValue ==
    /\ pc = "value"
    /\ err = "none"
    /\ lines = <<>>
    /\ node_list = <<>>
    /\ equations = <<>>
    /\ unknowns = <<>>
    /\ values = <<>>
    /\ sols = [kind |-> "unset", keys |-> {}]
    /\ transfer_func = <<>>

\* one call add_component(component, value); lines holds the call's arguments
AddComponentCall ==
    /\ pc = "value" /\ err = "none"
    /\ \E component \in ValueComponents, token \in ValueTokens :
         LET r == add_component(Accumulators, component, token)
         IN  /\ lines' = << <<component, token>> >>
             /\ values' = r.S.values
             /\ err' = r.err
    /\ UNCHANGED <<pc, node_list, equations, unknowns, sols, transfer_func>>

NextValue == AddComponentCall

SpecValue == InitValue /\ [][NextValue]_vars

(* ======================== properties =================================== *)
Last(q) == q[Len(q)]

\* a record of type R, C, L, V or I with name, node1, node2 and value
IsBranchRecord(l) ==
    /\ l[1] # <<>>
    /\ l[1] \notin TO_IGNORE
    /\ l[1][1] \in Passive \cup {"V", "I"}
    /\ Len(l) >= 4

IsShortRecord(l) ==
    /\ l[1] # <<>>
    /\ l[1] \notin TO_IGNORE
    /\ l[1][1] \in Passive \cup {"V", "I"}
    /\ Len(l) < 4

IsUnsupportedRecord(l) ==
    /\ l[1] # <<>>
    /\ l[1] \notin TO_IGNORE
    /\ l[1][1] \notin Passive \cup {"V", "I"}

\* the step processes one more netlist line
ScanStep == pc = "scan" /\ Len(lines') = Len(lines) + 1

ScanComplete == pc \in {"kcl", "solve", "tf", "done"}

KCLGenerated == pc \in {"solve", "tf", "done"}

KCLEquations == SelectSeq(equations, LAMBDA e : e.kind = "KCL")

ConstraintEquations == SelectSeq(equations, LAMBDA e : e.kind = "constraint")

LedgerNodes == { node_list[i].node : i \in 1..Len(node_list) }

AllTerms(nl) == UNION { Range(nl[i].currents) : i \in 1..Len(nl) }

(* ------------------------------- C1 ------------------------------------ *)
\* the same elements with the same multiplicities
SameBag(p, q) ==
    /\ Len(p) = Len(q)
    /\ \A x \in Range(p) \cup Range(q) : Count(p, x) = Count(q, x)

\* "sum of the node's ledger contributions = 0" for the ledger entries of
\* the given nodes
KCLOf(nodeset) ==
    LET entries == SelectSeq(node_list, LAMBDA en : en.node \in nodeset)
    IN  [i \in 1..Len(entries) |->
            [kind |-> "KCL", currents |-> entries[i].currents]]

DistinctLedgerNodes ==
    \A i, j \in 1..Len(node_list) :
        node_list[i].node = node_list[j].node => i = j

\* C1 as stated: once KCL generation has run, the equation list holds exactly
\* one KCL equation per non-ground ledger node and none for any other node,
\* ground included.
C1_KCLNonGroundOnly ==
    KCLGenerated =>
        /\ DistinctLedgerNodes
        /\ SameBag(KCLEquations, KCLOf(Nodes \ {Ground}))

\* C1 amended: once KCL generation has run, the equation list holds exactly
\* one KCL equation (sum of the node's ledger contributions = 0) per node of
\* the ledger, the ground node "0" included when it received a contribution,
\* and no other KCL equation.
C1_KCLPerLedgerNode ==
    KCLGenerated =>
        /\ DistinctLedgerNodes
        /\ SameBag(KCLEquations, KCLOf(Nodes))

C1_Witness ==
    /\ pc = "solve"
    /\ LedgerNodes = Nodes
    /\ Len(KCLEquations) = 3

(* ------------------------------- C2 ------------------------------------ *)
\* C2: processing a full R, C, L, V or I record with nodes n1, n2 appends
\* exactly one term -I to the ledger entry of n1 and one term +I of the same
\* current to the entry of n2, creates missing entries, and leaves every
\* other node's entry as it was (also when n1 = n2 or a node is ground).
C2_BranchContributions ==
    [][ (ScanStep /\ IsBranchRecord(Last(lines'))) =>
          LET l == Last(lines')
          IN  \E t \in AllTerms(node_list') :
                /\ \A n \in Nodes :
                     Currents(node_list', n) =
                        Currents(node_list, n)
                        \o (IF n = l[2]
                            THEN << [sign |-> -1, current |-> t.current] >>
                            ELSE <<>>)
                        \o (IF n = l[3]
                            THEN << [sign |-> 1, current |-> t.current] >>
                            ELSE <<>>)
                /\ { node_list'[i].node : i \in 1..Len(node_list') } =
                      LedgerNodes \cup {l[2], l[3]}
      ]_vars

C2_Witness ==
    /\ Len(lines) = 2
    /\ IsBranchRecord(lines[1]) /\ IsBranchRecord(lines[2])
    /\ lines[1][2] = Ground /\ lines[1][3] = <<"1">>
    /\ lines[2][2] = <<"1">> /\ lines[2][3] = <<"1">>
    /\ Len(Currents(node_list, <<"1">>)) = 3

(* ------------------------------- C3 ------------------------------------ *)
VoltagesInEquations ==
    { e.v1 : e \in Range(ConstraintEquations) }
    \cup { e.v2 : e \in Range(ConstraintEquations) }
    \cup { t.current.v1 : t \in { u \in AllTerms(node_list) :
                                      u.current.op = "div" } }
    \cup { t.current.v2 : t \in { u \in AllTerms(node_list) :
                                      u.current.op = "div" } }

\* C3 as stated: the symbol V0 is never an element of the unknown list and
\* ground's voltage occurs in the equations only as the constant 0.
C3_GroundNeverUnknown ==
    /\ Sym("V", Ground) \notin Range(unknowns)
    /\ Sym("V", Ground) \notin VoltagesInEquations

(* ------------------------------- C4 ------------------------------------ *)
\* C4 as stated: when the unknown list is handed to the solver, every
\* non-ground node of the ledger occurs in it exactly once as "V" + node.
C4_NodeUnknownExactlyOnce ==
    pc = "solve" =>
        \A n \in LedgerNodes \ {Ground} : Count(unknowns, Sym("V", n)) = 1

(* ------------------------------- C5 ------------------------------------ *)
SourceRecords(type) ==
    SelectSeq(lines, LAMBDA l : IsBranchRecord(l) /\ l[1][1] = type)

\* C5: after a complete scan the constraint equations are exactly one per V
\* record (name = V(node1) - V(node2), ground as 0), every V record's
\* current symbol "I" + name is in the unknown list, and no I record's
\* current symbol is.
C5_SourceConstraints ==
    ScanComplete =>
        /\ LET vs == SourceRecords("V")
           IN  ConstraintEquations =
                 [i \in 1..Len(vs) |->
                    [kind |-> "constraint", lhs |-> vs[i][1],
                     v1 |-> IF vs[i][2] = <<"0">> THEN Zero
                            ELSE <<"V">> \o vs[i][2],
                     v2 |-> IF vs[i][3] = <<"0">> THEN Zero
                            ELSE <<"V">> \o vs[i][3]]]
        /\ \A l \in Range(SourceRecords("V")) :
              <<"I">> \o l[1] \in Range(unknowns)
        /\ \A l \in Range(SourceRecords("I")) :
              <<"I">> \o l[1] \notin Range(unknowns)

C5_Witness ==
    /\ pc = "solve"
    /\ Len(SourceRecords("V")) = 1
    /\ Len(SourceRecords("I")) = 1
    /\ Len(ConstraintEquations) = 1

(* ------------------------------- C6 ------------------------------------ *)
\* C6: a record of type R, C, L, V or I with fewer than four fields raises
\* an error and leaves the node ledger, the equation list, the unknown list
\* and the component-value table exactly as they were.
C6_ShortRecordRejected ==
    [][ (ScanStep /\ IsShortRecord(Last(lines'))) =>
          /\ err' # "none"
          /\ UNCHANGED <<node_list, equations, unknowns, values>>
      ]_vars

C6_Witness ==
    /\ Len(lines) = 2
    /\ IsBranchRecord(lines[1])
    /\ IsShortRecord(lines[2]) /\ Len(lines[2]) = 3
    /\ err = "IndexError"
    /\ node_list # <<>>

(* ------------------------------- C7 ------------------------------------ *)
\* C7 as stated: a record that is not ignored and whose type code is outside
\* {R, C, L, V, I} raises an Unsupported-Element error, so it is the last
\* line the run processes.
C7_UnsupportedRejected ==
    \A i \in 1..Len(lines) :
        IsUnsupportedRecord(lines[i]) => (i = Len(lines) /\ err # "none")

(* ------------------------------- C8 ------------------------------------ *)
ScaleExponent(x) ==
    CASE x = <<"m","e","g">> -> 6
      [] x = <<"t">> -> 12
      [] x = <<"g">> -> 9
      [] x = <<"k">> -> 3
      [] x = <<"m">> -> -3
      [] x = <<"u">> -> -6
      [] x = <<"n">> -> -9
      [] x = <<"p">> -> -12
      [] x = <<"f">> -> -15

ScaleSuffixes ==
    { <<"m","e","g">>, <<"t">>, <<"g">>, <<"k">>, <<"m">>, <<"u">>, <<"n">>,
      <<"p">>, <<"f">> }

\* the decompositions digits + scale suffix [+ unit letter] of a token
Decompositions(token) ==
    { d \in NumberTokens \X ScaleSuffixes \X (UnitLetters \cup { <<>> }) :
         token = d[1] \o d[2] \o d[3] }

\* digits followed by at most one unit letter
PlainNumbers ==
    { n \o u : n \in NumberTokens, u \in UnitLetters \cup { <<>> } }

\* tokens with no reading as a number: no digits, or characters that are
\* neither digits, a scale suffix nor a unit letter
Unreadable(token) ==
    \/ token = <<>>
    \/ token[1] \notin Digits
    \/ \E i \in 1..Len(token) : token[i] \in {"x", "y", "z", "."}

\* C8 as stated: digits N + one scale suffix (+ optional unit letter) records
\* N times the suffix's power of ten (f is 10^-15), digits alone record N,
\* and a token with no such reading raises the value error and records
\* nothing.
C8_ValueParsing ==
    [][ (pc = "value" /\ lines' # lines) =>
          LET component == lines'[1][1]
              token == lines'[1][2]
          IN  /\ Decompositions(token) # {} =>
                   /\ err' = "none"
                   /\ \A d \in Decompositions(token) :
                        values'[component] =
                           Scaled(DigitsToInt(d[1]), ScaleExponent(d[2]))
              /\ token \in PlainNumbers \ { t \in ValueTokens :
                                               Decompositions(t) # {} } =>
                   /\ err' = "none"
                   /\ \E n \in NumberTokens :
                        /\ IsPrefix(n, token) /\ Len(token) <= Len(n) + 1
                        /\ values'[component] = Scaled(DigitsToInt(n), 0)
              /\ Unreadable(token) =>
                   /\ err' = "ValueError"
                   /\ values' = values
      ]_vars

(* ------------------------------- C9 ------------------------------------ *)
PhaseRank(p) ==
    CASE p = "scan" -> 0 [] p = "kcl" -> 1 [] p = "solve" -> 2
      [] p = "tf" -> 3 [] p = "done" -> 4

\* C9: the phases run in the order scan, KCL generation, solve, transfer
\* function; during the scan the equation and unknown lists only grow at the
\* end and hold no KCL equation; no line is processed after the scan; and
\* from the solve phase on the equation list, the unknown list and the node
\* ledger never change.
C9_PhaseDiscipline ==
    [][ /\ PhaseRank(pc') \in {PhaseRank(pc), PhaseRank(pc) + 1}
        /\ pc = "scan" => /\ IsPrefix(equations, equations')
                          /\ IsPrefix(unknowns, unknowns')
        /\ pc' \in {"scan", "kcl"} => KCLEquations' = <<>>
        /\ pc # "scan" => lines' = lines
        /\ pc \in {"solve", "tf", "done"} =>
              UNCHANGED <<equations, unknowns, node_list>>
        /\ (pc = "kcl" /\ pc' = "solve") =>
              /\ IsPrefix(equations, equations')
              /\ UNCHANGED <<unknowns, node_list>>
      ]_vars

C9_Witness ==
    /\ pc = "done"
    /\ KCLEquations # <<>>
    /\ ConstraintEquations # <<>>
    /\ Len(unknowns) >= 3

(* ------------------------------- C10 ----------------------------------- *)
NodeVoltageSymbols == { Sym("V", n) : n \in LedgerNodes \ {Ground} }

ComponentValueSymbols ==
    { l[1] : l \in { r \in Range(lines) : IsBranchRecord(r) } }

SourceCurrentSymbols ==
    { Sym("I", l[1]) : l \in { r \in Range(lines) :
                                  IsBranchRecord(r) /\ r[1][1] \in {"V", "I"} } }

\* C10 as stated: node-voltage symbols, component value symbols and
\* source-current symbols are pairwise distinct.
C10_SymbolsInjective ==
    pc # "value" =>
        /\ NodeVoltageSymbols \cap ComponentValueSymbols = {}
        /\ NodeVoltageSymbols \cap SourceCurrentSymbols = {}
        /\ SourceCurrentSymbols \cap ComponentValueSymbols = {}
====
